---- MODULE Spec2Model ----
(***************************************************************************)
(* The OCPP-J 1.6 WebSocket endpoint of backend/src/main.rs: the frame     *)
(* decoder (OcppMessageType), the action lookup (OcppActionEnum::from_str),*)
(* the untagged payload parser (OcppPayload), the per-action Call handler  *)
(* and the per-connection receive loop (handle_socket).                    *)
(***************************************************************************)
EXTENDS Integers, Sequences, FiniteSets, TLC

(***************************************************************************)
(* JSON values.  A text frame is either not JSON at all (JGarbage) or one  *)
(* of these values; an object is a set of <<key, value>> pairs.            *)
(***************************************************************************)
JGarbage == [k |-> "garbage"]
JNull == [k |-> "null"]
JStr(s) == [k |-> "str", s |-> s]
JNum(n) == [k |-> "num", n |-> n]
JBool(b) == [k |-> "bool", b |-> b]
JArr(a) == [k |-> "arr", a |-> a]
JObj(o) == [k |-> "obj", o |-> o]

IsStr(v) == v.k = "str"
IsNum(v) == v.k = "num"
IsArr(v) == v.k = "arr"
IsObj(v) == v.k = "obj"
IsNull(v) == v.k = "null"
IsBool(v) == v.k = "bool"

HasKey(v, key) == \E p \in v.o : p[1] = key
Get(v, key) == (CHOOSE p \in v.o : p[1] = key)[2]

\* usize, u32 and i32: the numbers of the model are small integers, far inside
\* the upper limits of the three types, so only the sign decides.
IsUsize(v) == IsNum(v) /\ v.n >= 0
IsU32(v) == IsNum(v) /\ v.n >= 0
IsI32(v) == IsNum(v)

(***************************************************************************)
(* Frame decoding: serde_json::from_str::<OcppMessageType>.  The enum is   *)
(* untagged, so the variants are tried in declaration order and the first  *)
(* tuple whose length and element types fit is taken.  The first element   *)
(* is a usize in every variant: its value is not looked at.                *)
(***************************************************************************)
DecodeErr == [ok |-> FALSE]

FitsCall(a) ==
    /\ Len(a) = 4
    /\ IsUsize(a[1]) /\ IsStr(a[2]) /\ IsStr(a[3])

FitsCallResult(a) ==
    /\ Len(a) = 3
    /\ IsUsize(a[1]) /\ IsStr(a[2])

FitsCallError(a) ==
    /\ Len(a) = 5
    /\ IsUsize(a[1]) /\ IsStr(a[2]) /\ IsStr(a[3]) /\ IsStr(a[4])

OcppMessageType(text) ==
    IF ~IsArr(text) THEN DecodeErr
    ELSE LET a == text.a IN
         IF FitsCall(a)
         THEN [ok |-> TRUE, variant |-> "Call", message_type_id |-> a[1].n,
               message_id |-> a[2].s, action |-> a[3].s, payload |-> a[4]]
         ELSE IF FitsCallResult(a)
         THEN [ok |-> TRUE, variant |-> "CallResult", message_type_id |-> a[1].n,
               message_id |-> a[2].s, payload |-> a[3]]
         ELSE IF FitsCallError(a)
         THEN [ok |-> TRUE, variant |-> "CallError", message_type_id |-> a[1].n,
               message_id |-> a[2].s, error_code |-> a[3].s,
               error_description |-> a[4].s, error_details |-> a[5]]
         ELSE DecodeErr

(***************************************************************************)
(* Action lookup: OcppActionEnum::from_str, an exact match on 16 names.    *)
(***************************************************************************)
OcppActionEnum ==
    {"Authorize", "BootNotification", "ChangeAvailability", "ChangeConfiguration",
     "ClearCache", "DataTransfer", "GetConfiguration", "Heartbeat", "MeterValues",
     "RemoteStartTransaction", "RemoteStopTransaction", "Reset",
     "StatusNotification", "StartTransaction", "StopTransaction", "UnlockConnector"}

\* the spelling a lookup that ignores case would match
AnyCase(str) ==
    CASE str = "heartbeat" -> "Heartbeat"
      [] str = "HEARTBEAT" -> "Heartbeat"
      [] str = "authorize" -> "Authorize"
      [] OTHER -> str

\* from_str matching the names whatever their case
from_str_any_case(str) ==
    IF AnyCase(str) \in OcppActionEnum
    THEN [ok |-> TRUE, action |-> AnyCase(str)] ELSE [ok |-> FALSE]

from_str(str) ==
    IF str \in OcppActionEnum THEN [ok |-> TRUE, action |-> str] ELSE [ok |-> FALSE]

(***************************************************************************)
(* The request and response structs of rust_ocpp::v1_6 that OcppPayload    *)
(* wraps, as field lists in declaration order.  F is a required field, O   *)
(* an Option field.  serde's derived Deserialize takes a struct from a     *)
(* JSON object (unknown keys ignored, an Option field absent or null) or   *)
(* from a JSON array holding exactly one element per field, in order.      *)
(***************************************************************************)
F(n, ty) == [n |-> n, ty |-> ty, opt |-> FALSE]
O(n, ty) == [n |-> n, ty |-> ty, opt |-> TRUE]

\* chrono's RFC 3339 parser, on the strings of the model
DateTimeTexts == {"2024-01-01T00:00:00Z", "2024-01-01T00:00:01Z", "2024-01-01T00:00:02Z",
                  "2024-01-01T00:00:03Z"}

EnumValues(ty) ==
    CASE ty = "AuthorizationStatus" ->
           {"Accepted", "Blocked", "Expired", "Invalid", "ConcurrentTx"}
      [] ty = "RegistrationStatus" -> {"Accepted", "Pending", "Rejected"}
      [] ty = "AvailabilityType" -> {"Inoperative", "Operative"}
      [] ty = "ConfigurationStatus" ->
           {"Accepted", "Rejected", "RebootRequired", "NotSupported"}
      [] ty = "ClearCacheStatus" -> {"Accepted", "Rejected"}
      [] ty = "DataTransferStatus" ->
           {"Accepted", "Rejected", "UnknownMessageId", "UnknownVendorId"}
      [] ty = "RemoteStartStopStatus" -> {"Accepted", "Rejected"}
      [] ty = "ResetRequestStatus" -> {"Hard", "Soft"}
      [] ty = "ResetResponseStatus" -> {"Accepted", "Rejected"}
      [] ty = "ChargePointErrorCode" ->
           {"ConnectorLockFailure", "EVCommunicationError", "GroundFailure",
            "HighTemperature", "InternalError", "LocalListConflict", "NoError",
            "OtherError", "OverCurrentFailure", "OverVoltage", "PowerMeterFailure",
            "PowerSwitchFailure", "ReaderFailure", "ResetFailure", "UnderVoltage",
            "WeakSignal"}
      [] ty = "ChargePointStatus" ->
           {"Available", "Preparing", "Charging", "SuspendedEVSE", "SuspendedEV",
            "Finishing", "Reserved", "Unavailable", "Faulted"}
      [] ty = "Reason" ->
           {"EmergencyStop", "EVDisconnected", "HardReset", "Local", "Other",
            "PowerLoss", "Reboot", "Remote", "SoftReset", "UnlockCommand",
            "DeAuthorized"}
      [] ty = "UnlockStatus" -> {"Unlocked", "UnlockFailed", "NotSupported"}
      [] ty = "ReadingContext" ->
           {"Interruption.Begin", "Interruption.End", "Other", "Sample.Clock",
            "Sample.Periodic", "Transaction.Begin", "Transaction.End", "Trigger"}
      [] ty = "ValueFormat" -> {"Raw", "SignedData"}
      [] ty = "Measurand" ->
           {"Current.Export", "Current.Import", "Current.Offered",
            "Energy.Active.Export.Register", "Energy.Active.Import.Register",
            "Energy.Reactive.Export.Register", "Energy.Reactive.Import.Register",
            "Energy.Active.Export.Interval", "Energy.Active.Import.Interval",
            "Energy.Reactive.Export.Interval", "Energy.Reactive.Import.Interval",
            "Frequency", "Power.Active.Export", "Power.Active.Import", "Power.Factor",
            "Power.Offered", "Power.Reactive.Export", "Power.Reactive.Import", "RPM",
            "SoC", "Temperature", "Voltage"}
      [] ty = "Phase" ->
           {"L1", "L2", "L3", "N", "L1-N", "L2-N", "L3-N", "L1-L2", "L2-L3", "L3-L1"}
      [] ty = "Location" -> {"Body", "Cable", "EV", "Inlet", "Outlet"}
      [] ty = "UnitOfMeasure" ->
           {"Wh", "kWh", "varh", "kvarh", "W", "kW", "VA", "kVA", "var", "kvar", "A",
            "V", "Celsius", "Fahrenheit", "K", "Percent"}
      [] ty = "ChargingProfilePurposeType" ->
           {"ChargePointMaxProfile", "TxDefaultProfile", "TxProfile"}
      [] ty = "ChargingProfileKindType" -> {"Absolute", "Recurring", "Relative"}
      [] ty = "RecurrencyKindType" -> {"Daily", "Weekly"}
      [] ty = "ChargingRateUnitType" -> {"W", "A"}
      [] OTHER -> {}

\* serde's derived Deserialize of an enum of unit variants: the name of a
\* variant as a string, or an object of one key, the name, with value null
UnitVariant(v, ty) ==
    \/ IsStr(v) /\ v.s \in EnumValues(ty)
    \/ /\ IsObj(v) /\ Cardinality(v.o) = 1
       /\ \E p \in v.o : p[1] \in EnumValues(ty) /\ IsNull(p[2])

IdTagInfo == <<O("expiryDate", "DateTime"), O("parentIdTag", "String"),
               F("status", "AuthorizationStatus")>>

\* the records of rust_ocpp::v1_6::types that requests and responses nest
SampledValue ==
    <<F("value", "String"), O("context", "ReadingContext"), O("format", "ValueFormat"),
      O("measurand", "Measurand"), O("phase", "Phase"), O("location", "Location"),
      O("unit", "UnitOfMeasure")>>
MeterValue == <<F("timestamp", "DateTime"), F("sampledValue", "VecSampledValue")>>
KeyValue == <<F("key", "String"), F("readonly", "bool"), O("value", "String")>>
ChargingSchedulePeriod ==
    <<F("startPeriod", "i32"), F("limit", "Decimal"), O("numberPhases", "i32")>>
ChargingSchedule ==
    <<O("duration", "i32"), O("startSchedule", "DateTime"),
      F("chargingRateUnit", "ChargingRateUnitType"),
      F("chargingSchedulePeriod", "VecChargingSchedulePeriod"),
      O("minChargingRate", "Decimal")>>
ChargingProfile ==
    <<F("chargingProfileId", "i32"), O("transactionId", "i32"), F("stackLevel", "u32"),
      F("chargingProfilePurpose", "ChargingProfilePurposeType"),
      F("chargingProfileKind", "ChargingProfileKindType"),
      O("recurrencyKind", "RecurrencyKindType"), O("validFrom", "DateTime"),
      O("validTo", "DateTime"), F("chargingSchedule", "ChargingSchedule")>>

\* the record type of the elements of a Vec of records
ElementRecord(ty) ==
    CASE ty = "VecSampledValue" -> SampledValue
      [] ty = "VecMeterValue" -> MeterValue
      [] ty = "VecKeyValue" -> KeyValue
      [] ty = "VecChargingSchedulePeriod" -> ChargingSchedulePeriod

RECURSIVE HasType(_, _)
RECURSIVE Deserializes(_, _)

\* Whether JSON value v deserializes as Rust type ty.  A Decimal is taken
\* from a JSON number.
HasType(v, ty) ==
    CASE ty = "String" -> IsStr(v)
      [] ty = "u32" -> IsU32(v)
      [] ty = "i32" -> IsI32(v)
      [] ty = "bool" -> IsBool(v)
      [] ty = "Decimal" -> IsNum(v)
      [] ty = "DateTime" -> IsStr(v) /\ v.s \in DateTimeTexts
      [] ty = "IdTagInfo" -> Deserializes(IdTagInfo, v)
      [] ty = "ChargingProfile" -> Deserializes(ChargingProfile, v)
      [] ty = "ChargingSchedule" -> Deserializes(ChargingSchedule, v)
      [] ty = "VecString" -> IsArr(v) /\ \A i \in 1..Len(v.a) : IsStr(v.a[i])
      [] ty \in {"VecSampledValue", "VecMeterValue", "VecKeyValue",
                 "VecChargingSchedulePeriod"} ->
           IsArr(v) /\ \A i \in 1..Len(v.a) : Deserializes(ElementRecord(ty), v.a[i])
      [] OTHER -> UnitVariant(v, ty)

FieldFits(f, v) == (f.opt /\ IsNull(v)) \/ HasType(v, f.ty)

Deserializes(fields, v) ==
    IF IsObj(v)
    THEN \A i \in 1..Len(fields) :
            IF HasKey(v, fields[i].n)
            THEN FieldFits(fields[i], Get(v, fields[i].n))
            ELSE fields[i].opt
    ELSE IF IsArr(v)
    THEN /\ Len(v.a) = Len(fields)
         /\ \A i \in 1..Len(fields) : FieldFits(fields[i], v.a[i])
    ELSE FALSE

AuthorizeRequest == <<F("idTag", "String")>>
AuthorizeResponse == <<F("idTagInfo", "IdTagInfo")>>
BootNotificationRequest ==
    <<O("chargeBoxSerialNumber", "String"), F("chargePointModel", "String"),
      O("chargePointSerialNumber", "String"), F("chargePointVendor", "String"),
      O("firmwareVersion", "String"), O("iccid", "String"), O("imsi", "String"),
      O("meterSerialNumber", "String"), O("meterType", "String")>>
BootNotificationResponse ==
    <<F("currentTime", "DateTime"), F("interval", "u32"),
      F("status", "RegistrationStatus")>>
ChangeAvailabilityRequest == <<F("connectorId", "u32"), F("type", "AvailabilityType")>>
ChangeConfigurationRequest == <<F("key", "String"), F("value", "String")>>
ChangeConfigurationResponse == <<F("status", "ConfigurationStatus")>>
ClearCacheRequest == <<>>
ClearCacheResponse == <<F("status", "ClearCacheStatus")>>
DataTransferRequest ==
    <<F("vendorId", "String"), O("messageId", "String"), O("data", "String")>>
DataTransferResponse == <<F("status", "DataTransferStatus"), O("data", "String")>>
GetConfigurationRequest == <<O("key", "VecString")>>
GetConfigurationResponse ==
    <<O("configurationKey", "VecKeyValue"), O("unknownKey", "VecString")>>
HeartbeatRequest == <<>>
HeartbeatResponse == <<F("currentTime", "DateTime")>>
MeterValuesRequest ==
    <<F("connectorId", "u32"), O("transactionId", "i32"), F("meterValue", "VecMeterValue")>>
MeterValuesResponse == <<>>
RemoteStartTransactionRequest ==
    <<O("connectorId", "u32"), F("idTag", "String"), O("chargingProfile", "ChargingProfile")>>
RemoteStartTransactionResponse == <<F("status", "RemoteStartStopStatus")>>
RemoteStopTransactionRequest == <<F("transactionId", "i32")>>
RemoteStopTransactionResponse == <<F("status", "RemoteStartStopStatus")>>
ResetRequest == <<F("type", "ResetRequestStatus")>>
ResetResponse == <<F("status", "ResetResponseStatus")>>
StartTransactionRequest ==
    <<F("connectorId", "u32"), F("idTag", "String"), F("meterStart", "i32"),
      O("reservationId", "i32"), F("timestamp", "DateTime")>>
StartTransactionResponse == <<F("idTagInfo", "IdTagInfo"), F("transactionId", "i32")>>
StatusNotificationRequest ==
    <<F("connectorId", "u32"), F("errorCode", "ChargePointErrorCode"),
      O("info", "String"), F("status", "ChargePointStatus"),
      O("timestamp", "DateTime"), O("vendorId", "String"),
      O("vendorErrorCode", "String")>>
StatusNotificationResponse == <<>>
StopTransactionRequest ==
    <<O("idTag", "String"), F("meterStop", "i32"), F("timestamp", "DateTime"),
      F("transactionId", "i32"), O("reason", "Reason"),
      O("transactionData", "VecMeterValue")>>
StopTransactionResponse == <<O("idTagInfo", "IdTagInfo")>>
UnlockConnectorRequest == <<F("connectorId", "u32")>>
UnlockConnectorResponse == <<F("status", "UnlockStatus")>>

(***************************************************************************)
(* OcppPayload: an untagged enum of sixteen untagged Request/Response      *)
(* enums.  serde_json::from_value::<OcppPayload> tries the variants in     *)
(* declaration order, and inside each variant Request before Response,     *)
(* and returns the first that deserializes; the action name plays no part. *)
(***************************************************************************)
V(variant, kind, fields) == [variant |-> variant, kind |-> kind, fields |-> fields]

OcppPayload ==
    << V("Authorize", "Request", AuthorizeRequest),
       V("Authorize", "Response", AuthorizeResponse),
       V("BootNotification", "Request", BootNotificationRequest),
       V("BootNotification", "Response", BootNotificationResponse),
       V("ChangeAvailability", "Request", ChangeAvailabilityRequest),
       V("ChangeAvailability", "Response", ChangeAvailabilityRequest),
       V("ChangeConfiguration", "Request", ChangeConfigurationRequest),
       V("ChangeConfiguration", "Response", ChangeConfigurationResponse),
       V("ClearCache", "Request", ClearCacheRequest),
       V("ClearCache", "Response", ClearCacheResponse),
       V("DataTransfer", "Request", DataTransferRequest),
       V("DataTransfer", "Response", DataTransferResponse),
       V("GetConfiguration", "Request", GetConfigurationRequest),
       V("GetConfiguration", "Response", GetConfigurationResponse),
       V("Heartbeat", "Request", HeartbeatRequest),
       V("Heartbeat", "Response", HeartbeatResponse),
       V("MeterValues", "Request", MeterValuesRequest),
       V("MeterValues", "Response", MeterValuesResponse),
       V("RemoteStartTransaction", "Request", RemoteStartTransactionRequest),
       V("RemoteStartTransaction", "Response", RemoteStartTransactionResponse),
       V("RemoteStopTransaction", "Request", RemoteStopTransactionRequest),
       V("RemoteStopTransaction", "Response", RemoteStopTransactionResponse),
       V("Reset", "Request", ResetRequest),
       V("Reset", "Response", ResetResponse),
       V("StartTransaction", "Request", StartTransactionRequest),
       V("StartTransaction", "Response", StartTransactionResponse),
       V("StatusNotification", "Request", StatusNotificationRequest),
       V("StatusNotification", "Response", StatusNotificationResponse),
       V("StopTransaction", "Request", StopTransactionRequest),
       V("StopTransaction", "Response", StopTransactionResponse),
       V("UnlockConnector", "Request", UnlockConnectorRequest),
       V("UnlockConnector", "Response", UnlockConnectorResponse) >>

PayloadErr == [ok |-> FALSE]

from_value(payload) ==
    LET fits == {i \in 1..Len(OcppPayload) : Deserializes(OcppPayload[i].fields, payload)}
    IN  IF fits = {} THEN PayloadErr
        ELSE LET first == CHOOSE i \in fits : \A j \in fits : i <= j
             IN  [ok |-> TRUE, variant |-> OcppPayload[first].variant,
                  kind |-> OcppPayload[first].kind, value |-> payload]

\* An Option<String> field of a parsed struct: None when absent or null.
OptionField(value, index, key) ==
    IF IsObj(value)
    THEN IF HasKey(value, key) /\ ~IsNull(Get(value, key))
         THEN [some |-> TRUE, s |-> Get(value, key).s] ELSE [some |-> FALSE]
    ELSE IF IsNull(value.a[index]) THEN [some |-> FALSE]
         ELSE [some |-> TRUE, s |-> value.a[index].s]

(***************************************************************************)
(* Outbound texts.  OcppCallResult and OcppCallError are structs with      *)
(* named fields under rename_all = "PascalCase", so serde_json::to_string  *)
(* writes each as a JSON object keyed by field name.                       *)
(***************************************************************************)
CALL_RESULT_TYPE_ID == 3
BOOT_INTERVAL == 300
KNOWN_SERIAL == "NKYK430037668"

OcppCallResult(message_id, payload) ==
    JObj({<<"MessageTypeId", JNum(CALL_RESULT_TYPE_ID)>>,
          <<"MessageId", JStr(message_id)>>,
          <<"Payload", payload>>})

OcppCallError(message_type_id, message_id, error_code, error_description, error_details) ==
    JObj({<<"MessageTypeId", JNum(message_type_id)>>,
          <<"MessageId", JStr(message_id)>>,
          <<"ErrorCode", JStr(error_code)>>,
          <<"ErrorDescription", JStr(error_description)>>,
          <<"ErrorDetails", error_details>>})

\* Utc::now() as serialized by chrono, for clock value t
ClockTexts == <<"2024-01-01T00:00:00Z", "2024-01-01T00:00:01Z", "2024-01-01T00:00:02Z",
                "2024-01-01T00:00:03Z">>
UtcNow(t) == JStr(ClockTexts[t + 1])

IdTagInfoAccepted == JObj({<<"status", JStr("Accepted")>>})
AuthorizeResponseBody == JObj({<<"idTagInfo", IdTagInfoAccepted>>})
BootNotificationResponseBody(t) ==
    JObj({<<"currentTime", UtcNow(t)>>, <<"interval", JNum(BOOT_INTERVAL)>>,
          <<"status", JStr("Accepted")>>})
DataTransferResponseBody ==
    JObj({<<"status", JStr("Accepted")>>, <<"data", JStr("Data Transfer Accepted")>>})
HeartbeatResponseBody(t) == JObj({<<"currentTime", UtcNow(t)>>})
StopTransactionResponseBody == JObj({<<"idTagInfo", IdTagInfoAccepted>>})

(***************************************************************************)
(* handle_ocpp_call: the texts the handler passes to socket.send, in       *)
(* order (none or one).  The payload is parsed without the action; the     *)
(* action's arm then replies only when the parse produced that action's    *)
(* Request.                                                                *)
(***************************************************************************)
\* IsRequestOf matching any Request, whatever its action
IsRequestOfAny(p, action) == p.kind = "Request"

IsRequestOf(p, action) == p.variant = action /\ p.kind = "Request"

\* handle_ocpp_call without the comparison of the serial number
handle_ocpp_call_any_serial(message_id, action, payload, t) ==
    LET p == from_value(payload) IN
    IF ~p.ok THEN <<>>
    ELSE CASE action = "Authorize" ->
                IF IsRequestOf(p, "Authorize")
                THEN <<OcppCallResult(message_id, AuthorizeResponseBody)>>
                ELSE <<>>
           [] action = "BootNotification" ->
                IF IsRequestOf(p, "BootNotification")
                THEN <<OcppCallResult(message_id, BootNotificationResponseBody(t))>>
                ELSE <<>>
           [] action = "DataTransfer" ->
                IF IsRequestOf(p, "DataTransfer")
                THEN <<OcppCallResult(message_id, DataTransferResponseBody)>>
                ELSE <<>>
           [] action = "Heartbeat" ->
                IF IsRequestOf(p, "Heartbeat")
                THEN <<OcppCallResult(message_id, HeartbeatResponseBody(t))>>
                ELSE <<>>
           [] action = "StopTransaction" ->
                IF IsRequestOf(p, "StopTransaction")
                THEN <<OcppCallResult(message_id, StopTransactionResponseBody)>>
                ELSE <<>>
           [] OTHER -> <<>>

handle_ocpp_call(message_id, action, payload, t) ==
    LET p == from_value(payload) IN
    IF ~p.ok THEN <<>>
    ELSE CASE action = "Authorize" ->
                IF IsRequestOf(p, "Authorize")
                THEN <<OcppCallResult(message_id, AuthorizeResponseBody)>>
                ELSE <<>>
           [] action = "BootNotification" ->
                IF IsRequestOf(p, "BootNotification")
                THEN IF OptionField(p.value, 3, "chargePointSerialNumber")
                          = [some |-> TRUE, s |-> KNOWN_SERIAL]
                     THEN <<OcppCallResult(message_id, BootNotificationResponseBody(t))>>
                     ELSE <<>>
                ELSE <<>>
           [] action = "DataTransfer" ->
                IF IsRequestOf(p, "DataTransfer")
                THEN <<OcppCallResult(message_id, DataTransferResponseBody)>>
                ELSE <<>>
           [] action = "Heartbeat" ->
                IF IsRequestOf(p, "Heartbeat")
                THEN <<OcppCallResult(message_id, HeartbeatResponseBody(t))>>
                ELSE <<>>
           [] action = "StopTransaction" ->
                IF IsRequestOf(p, "StopTransaction")
                THEN <<OcppCallResult(message_id, StopTransactionResponseBody)>>
                ELSE <<>>
           [] OTHER -> <<>>

\* handle_ocpp_call_result: parses the payload, logs, sends nothing
handle_ocpp_call_result(message_id, payload) == <<>>

\* handle_ocpp_call_error with the message id and the error code swapped
handle_ocpp_call_error_swapped(message_type_id, message_id, error_code, description, details) ==
    <<OcppCallError(message_type_id, error_code, message_id, description, details)>>

\* handle_ocpp_call_error: rebuilds the CallError it received and sends it
handle_ocpp_call_error(message_type_id, message_id, error_code, description, details) ==
    <<OcppCallError(message_type_id, message_id, error_code, description, details)>>

(***************************************************************************)
(* handle_ocpp_messages: decode, look the action up, dispatch.             *)
(***************************************************************************)
handle_ocpp_messages(text, t) ==
    LET m == OcppMessageType(text) IN
    IF ~m.ok THEN <<>>
    ELSE IF m.variant = "Call"
    THEN IF from_str(m.action).ok
         THEN handle_ocpp_call(m.message_id, from_str(m.action).action, m.payload, t)
         ELSE <<>>
    ELSE IF m.variant = "CallResult"
    THEN handle_ocpp_call_result(m.message_id, m.payload)
    ELSE handle_ocpp_call_error(m.message_type_id, m.message_id, m.error_code,
                                m.error_description, m.error_details)

Step(step, ok, value) == [step |-> step, ok |-> ok, value |-> value]

\* handle_ocpp_messages_steps of a handler that parses the payload of a Call
\* before it looks the action up
handle_ocpp_messages_steps_eager(text) ==
    LET m == OcppMessageType(text) IN
    IF ~m.ok THEN <<Step("decode", FALSE, "")>>
    ELSE IF m.variant = "Call"
    THEN <<Step("decode", TRUE, "Call"),
           Step("payload", from_value(m.payload).ok, ""),
           Step("lookup", from_str(m.action).ok,
                IF from_str(m.action).ok THEN from_str(m.action).action ELSE "")>>
    ELSE IF m.variant = "CallResult"
    THEN <<Step("decode", TRUE, "CallResult"),
           Step("payload", from_value(m.payload).ok, "")>>
    ELSE <<Step("decode", TRUE, "CallError")>>

\* what handle_ocpp_messages and the handler it dispatches to evaluate for a
\* text, in the order of evaluation: serde_json::from_str of the frame,
\* OcppActionEnum::from_str of the action, serde_json::from_value of the
\* payload; each with its result
handle_ocpp_messages_steps(text) ==
    LET m == OcppMessageType(text) IN
    IF ~m.ok THEN <<Step("decode", FALSE, "")>>
    ELSE IF m.variant = "Call"
    THEN IF from_str(m.action).ok
         THEN <<Step("decode", TRUE, "Call"),
                Step("lookup", TRUE, from_str(m.action).action),
                Step("payload", from_value(m.payload).ok, "")>>
         ELSE <<Step("decode", TRUE, "Call"), Step("lookup", FALSE, "")>>
    ELSE IF m.variant = "CallResult"
    THEN <<Step("decode", TRUE, "CallResult"),
           Step("payload", from_value(m.payload).ok, "")>>
    ELSE <<Step("decode", TRUE, "CallError")>>

(***************************************************************************)
(* The frames a station sends in the model.                                *)
(***************************************************************************)
EmptyObject == JObj({})
IdTagObject == JObj({<<"idTag", JStr("TAG")>>})
BootObject == JObj({<<"chargePointVendor", JStr("X")>>, <<"chargePointModel", JStr("Y")>>})
BootKnownObject ==
    JObj({<<"chargePointVendor", JStr("X")>>, <<"chargePointModel", JStr("Y")>>,
          <<"chargePointSerialNumber", JStr(KNOWN_SERIAL)>>})
BootOtherObject ==
    JObj({<<"chargePointVendor", JStr("X")>>, <<"chargePointModel", JStr("Y")>>,
          <<"chargePointSerialNumber", JStr("SN-OTHER")>>})

\* the vendor field under both names that releases of rust_ocpp give it
VendorObject == JObj({<<"vendorId", JStr("V")>>, <<"vendorString", JStr("V")>>})
VendorArray == JArr(<<JStr("V"), JStr("M"), JStr("D")>>)
StopObject ==
    JObj({<<"meterStop", JNum(10)>>, <<"timestamp", JStr("2024-01-01T00:00:00Z")>>,
          <<"transactionId", JNum(1)>>})
ResetObject == JObj({<<"type", JStr("Hard")>>})
AvailabilityObject == JObj({<<"connectorId", JNum(1)>>, <<"type", JStr("Operative")>>})
StatusObject ==
    JObj({<<"connectorId", JNum(1)>>, <<"errorCode", JStr("NoError")>>,
          <<"status", JStr("Available")>>})
StartObject ==
    JObj({<<"connectorId", JNum(1)>>, <<"idTag", JStr("TAG")>>, <<"meterStart", JNum(0)>>,
          <<"timestamp", JStr("2024-01-01T00:00:00Z")>>})
MeterObject == JObj({<<"connectorId", JNum(1)>>, <<"meterValue", JArr(<<>>)>>})
AcceptedObject == JObj({<<"status", JStr("Accepted")>>})

\* <<action, payload>> of the Call frames: actions with a valid request of
\* their own, payloads that are no request of the action, unknown actions.
CallBodies ==
    {<<"Heartbeat", EmptyObject>>, <<"Heartbeat", JNull>>,
     <<"Authorize", IdTagObject>>, <<"Authorize", EmptyObject>>,
     <<"BootNotification", BootObject>>, <<"BootNotification", BootKnownObject>>,
     <<"BootNotification", BootOtherObject>>,
     <<"DataTransfer", VendorObject>>, <<"DataTransfer", VendorArray>>,
     <<"StopTransaction", StopObject>>, <<"StartTransaction", StartObject>>,
     <<"MeterValues", MeterObject>>, <<"StatusNotification", StatusObject>>,
     <<"Reset", ResetObject>>, <<"ChangeAvailability", AvailabilityObject>>,
     <<"Bogus", EmptyObject>>, <<"heartbeat", EmptyObject>>}

CallText(type_id, id, body) == JArr(<<JNum(type_id), JStr(id), JStr(body[1]), body[2]>>)
CallResultText(type_id, id, payload) == JArr(<<JNum(type_id), JStr(id), payload>>)
CallErrorText(type_id, id, code) ==
    JArr(<<JNum(type_id), JStr(id), JStr(code), JStr("description"), EmptyObject>>)

WellFormedCalls ==
    {CallText(2, "1", body) : body \in CallBodies}
    \cup {CallText(2, "2", <<"Heartbeat", EmptyObject>>),
          CallText(2, "2", <<"Authorize", IdTagObject>>)}

\* arrays of the right length and element types whose type id is not the one
\* of their kind
MistypedFrames ==
    {CallText(7, "1", <<"Authorize", IdTagObject>>),
     CallText(3, "1", <<"Heartbeat", EmptyObject>>),
     CallResultText(2, "1", EmptyObject)}

Replies ==
    {CallResultText(3, "1", EmptyObject), CallResultText(3, "2", AcceptedObject),
     CallErrorText(4, "1", "GenericError")}

\* texts that no variant of OcppMessageType takes; the last is a reply text of
\* the server itself
MalformedFrames ==
    {JGarbage, EmptyObject, JArr(<<JNum(2), JStr("1")>>),
     JArr(<<JNum(-1), JStr("1"), JStr("Heartbeat"), EmptyObject>>),
     OcppCallResult("1", AuthorizeResponseBody)}

Texts == WellFormedCalls \cup MistypedFrames \cup Replies \cup MalformedFrames

(***************************************************************************)
(* Connections.  Each WebSocket upgrade on /ocpp16j/:station_id spawns     *)
(* handle_socket, which owns the socket and runs the receive loop.         *)
(***************************************************************************)
Conns == {1, 2}
Stations == {"CP1", "CP2"}

MaxFrames == 2   \* stream items delivered to one connection in one behaviour
MaxInbox == 2    \* items received by the socket and not yet taken by the loop
MaxClock == 1    \* clock ticks

TextItem(text) == [kind |-> "Text", text |-> text]
OtherItems == {[kind |-> "Binary"], [kind |-> "Ping"], [kind |-> "Pong"],
               [kind |-> "Close"]}
\* socket.next() yielding None, or Some(Err(_))
EndItems == {[kind |-> "End"], [kind |-> "Error"]}
Items == {TextItem(t) : t \in Texts} \cup OtherItems \cup EndItems
NoItem == [kind |-> "None"]

VARIABLES
    status,   \* per connection: "none", "open" (loop running), "ended", "panicked"
    station,  \* per connection: the :station_id of its upgrade request
    wire,     \* per connection: "live", "closing" (Close delivered), "done"
    inbox,    \* per connection: items delivered and not yet taken by the loop
    nproc,    \* per connection: number of items the loop has taken
    last,     \* per connection: the item taken last, the texts sent for it and
              \* the steps of its handling
    pending,  \* per connection: the texts handed to socket.send whose send has
              \* not completed; empty when the loop is not inside a send
    outbox,   \* per connection: the texts sent, each with the index of its cause
    now       \* the server clock

vars == <<status, station, wire, inbox, nproc, last, pending, outbox, now>>

RECURSIVE Delivered(_)
Delivered(S) ==
    IF S = {} THEN 0
    ELSE LET c == CHOOSE x \in S : TRUE
         IN  nproc[c] + Len(inbox[c]) + Delivered(S \ {c})

Init ==
    /\ status = [c \in Conns |-> "none"]
    /\ station = [c \in Conns |-> ""]
    /\ wire = [c \in Conns |-> "live"]
    /\ inbox = [c \in Conns |-> <<>>]
    /\ nproc = [c \in Conns |-> 0]
    /\ last = [c \in Conns |-> [item |-> NoItem, sent |-> <<>>, steps |-> <<>>]]
    /\ pending = [c \in Conns |-> <<>>]
    /\ outbox = [c \in Conns |-> <<>>]
    /\ now = 0

\* upgrade_to_ws: every upgrade is accepted and gets its own handle_socket task.
\* Connections are numbered in the order of their upgrades.
upgrade_to_ws(c, sid) ==
    /\ status[c] = "none"
    /\ \A d \in Conns : d < c => status[d] # "none"
    /\ status' = [status EXCEPT ![c] = "open"]
    /\ station' = [station EXCEPT ![c] = sid]
    /\ UNCHANGED <<wire, inbox, nproc, last, pending, outbox, now>>

\* the peer or the transport delivers the next item of the stream
Deliver(c, item) ==
    /\ status[c] = "open"
    /\ wire[c] # "done"
    /\ wire[c] = "closing" => item \in EndItems
    /\ Len(inbox[c]) < MaxInbox
    /\ Delivered({c}) < MaxFrames
    /\ inbox' = [inbox EXCEPT ![c] = Append(@, item)]
    /\ wire' = [wire EXCEPT ![c] = IF item \in EndItems THEN "done"
                                    ELSE IF item.kind = "Close" THEN "closing" ELSE @]
    /\ UNCHANGED <<status, station, nproc, last, pending, outbox, now>>

\* the loop is at socket.next().await: it is running and not inside a send
AtNext(c) == status[c] = "open" /\ pending[c] = <<>>

\* Taken with the queue popped at the wrong end
TakenDropsNewest(c, item) ==
    /\ inbox' = [inbox EXCEPT ![c] = SubSeq(@, 1, Len(@) - 1)]
    /\ nproc' = [nproc EXCEPT ![c] = @ + 1]
    /\ last' = [last EXCEPT ![c] =
                  [item |-> item, sent |-> <<>>,
                   steps |-> IF item.kind = "Text"
                             THEN handle_ocpp_messages_steps(item.text) ELSE <<>>]]

\* socket.next() yields the oldest item of the stream to the loop
Taken(c, item) ==
    /\ inbox' = [inbox EXCEPT ![c] = Tail(@)]
    /\ nproc' = [nproc EXCEPT ![c] = @ + 1]
    /\ last' = [last EXCEPT ![c] =
                  [item |-> item, sent |-> <<>>,
                   steps |-> IF item.kind = "Text"
                             THEN handle_ocpp_messages_steps(item.text) ELSE <<>>]]

\* handle_socket_text of a loop that gives the session up on a text that does
\* not decode
handle_socket_text_strict(c) ==
    /\ AtNext(c) /\ inbox[c] # <<>>
    /\ Head(inbox[c]).kind = "Text"
    /\ Taken(c, Head(inbox[c]))
    /\ pending' = [pending EXCEPT ![c] = handle_ocpp_messages(Head(inbox[c]).text, now)]
    /\ status' = [status EXCEPT ![c] =
                     IF OcppMessageType(Head(inbox[c]).text).ok THEN @ ELSE "ended"]
    /\ UNCHANGED <<station, wire, outbox, now>>

\* handle_socket_text of a server that refuses a Heartbeat from a session it
\* has not yet answered
handle_socket_text_gated(c) ==
    /\ AtNext(c) /\ inbox[c] # <<>>
    /\ Head(inbox[c]).kind = "Text"
    /\ Taken(c, Head(inbox[c]))
    /\ LET m == OcppMessageType(Head(inbox[c]).text) IN
       pending' = [pending EXCEPT ![c] =
                     IF m.ok /\ m.variant = "Call" /\ m.action = "Heartbeat"
                        /\ outbox[c] = <<>>
                     THEN <<OcppCallError(4, m.message_id, "SecurityError", "", JObj({}))>>
                     ELSE handle_ocpp_messages(Head(inbox[c]).text, now)]
    /\ UNCHANGED <<status, station, wire, outbox, now>>

\* one turn of the while-let loop of handle_socket on a Text message, up to
\* the first suspension point: the loop takes the text and runs
\* handle_ocpp_messages, which reads the clock and either sends nothing, and
\* the turn is over, or builds a reply and awaits socket.send
handle_socket_text(c) ==
    /\ AtNext(c) /\ inbox[c] # <<>>
    /\ Head(inbox[c]).kind = "Text"
    /\ Taken(c, Head(inbox[c]))
    /\ pending' = [pending EXCEPT ![c] = handle_ocpp_messages(Head(inbox[c]).text, now)]
    /\ UNCHANGED <<status, station, wire, outbox, now>>

\* socket.send completes with Ok: the reply is out and the turn is over.  A
\* send that stays pending is a session that does not take this step.
handle_socket_send_done(c) ==
    /\ status[c] = "open" /\ pending[c] # <<>>
    /\ outbox' = [outbox EXCEPT ![c] =
                     @ \o [i \in 1..Len(pending[c]) |->
                              [text |-> pending[c][i], cause |-> nproc[c]]]]
    /\ last' = [last EXCEPT ![c].sent = pending[c]]
    /\ pending' = [pending EXCEPT ![c] = <<>>]
    /\ UNCHANGED <<status, station, wire, inbox, nproc, now>>

\* handle_socket_send_fails of a handler that drops the result of socket.send
handle_socket_send_ignored(c) ==
    /\ status[c] = "open" /\ pending[c] # <<>>
    /\ pending' = [pending EXCEPT ![c] = <<>>]
    /\ UNCHANGED <<status, station, wire, inbox, nproc, last, outbox, now>>

\* handle_socket_send_fails of a process that dies with the panicking task
handle_socket_send_aborts(c) ==
    /\ status[c] = "open" /\ pending[c] # <<>>
    /\ pending' = [pending EXCEPT ![c] = <<>>]
    /\ status' = [d \in Conns |-> IF status[d] = "open" THEN "panicked" ELSE status[d]]
    /\ UNCHANGED <<station, wire, inbox, nproc, last, outbox, now>>

\* socket.send completes with Err: .unwrap() panics the task, the reply is
\* dropped
handle_socket_send_fails(c) ==
    /\ status[c] = "open" /\ pending[c] # <<>>
    /\ pending' = [pending EXCEPT ![c] = <<>>]
    /\ status' = [status EXCEPT ![c] = "panicked"]
    /\ UNCHANGED <<station, wire, inbox, nproc, last, outbox, now>>

\* Binary, Close, Ping, Pong: logged or ignored, the loop goes on
handle_socket_other(c) ==
    /\ AtNext(c) /\ inbox[c] # <<>>
    /\ Head(inbox[c]) \in OtherItems
    /\ Taken(c, Head(inbox[c]))
    /\ UNCHANGED <<status, station, wire, pending, outbox, now>>

\* socket.next() yields None or Some(Err): the pattern fails, the loop ends
handle_socket_end(c) ==
    /\ AtNext(c) /\ inbox[c] # <<>>
    /\ Head(inbox[c]) \in EndItems
    /\ Taken(c, Head(inbox[c]))
    /\ status' = [status EXCEPT ![c] = "ended"]
    /\ UNCHANGED <<station, wire, pending, outbox, now>>

Tick ==
    /\ now < MaxClock
    /\ now' = now + 1
    /\ UNCHANGED <<status, station, wire, inbox, nproc, last, pending, outbox>>

NextOver(C, I) ==
    \/ \E c \in C, sid \in Stations : upgrade_to_ws(c, sid)
    \/ \E c \in C, item \in I : Deliver(c, item)
    \/ \E c \in C : handle_socket_text(c)
    \/ \E c \in C : handle_socket_send_done(c)
    \/ \E c \in C : handle_socket_send_fails(c)
    \/ \E c \in C : handle_socket_other(c)
    \/ \E c \in C : handle_socket_end(c)
    \/ Tick

\* one station's connection, with every frame of the model
Next == NextOver({1}, Items)

Spec == Init /\ [][Next]_vars

\* two stations connected at once.  The first receives a Heartbeat, an accepted
\* and a refused BootNotification, a text that is no JSON, a Ping and the two
\* stream ends; the second a Heartbeat, an accepted BootNotification and a
\* stream error.
FleetTexts ==
    {CallText(2, "1", <<"Heartbeat", EmptyObject>>),
     CallText(2, "1", <<"BootNotification", BootKnownObject>>),
     CallText(2, "1", <<"BootNotification", BootOtherObject>>),
     JGarbage}
FleetItems == {TextItem(t) : t \in FleetTexts} \cup {[kind |-> "Ping"]} \cup EndItems
PeerItems ==
    {TextItem(CallText(2, "1", <<"Heartbeat", EmptyObject>>)),
     TextItem(CallText(2, "1", <<"BootNotification", BootKnownObject>>)),
     [kind |-> "Error"]}

\* the steps of the two sessions interleave freely; the clock stands still,
\* as nothing checked on two sessions reads the time
NextFleet ==
    \/ \E c \in Conns, sid \in Stations : upgrade_to_ws(c, sid)
    \/ \E item \in FleetItems : Deliver(1, item)
    \/ \E item \in PeerItems : Deliver(2, item)
    \/ \E c \in Conns : handle_socket_text(c)
    \/ \E c \in Conns : handle_socket_send_done(c)
    \/ \E c \in Conns : handle_socket_send_fails(c)
    \/ \E c \in Conns : handle_socket_other(c)
    \/ \E c \in Conns : handle_socket_end(c)

SpecFleet == Init /\ [][NextFleet]_vars

\* the runtime keeps polling the task of a session whose socket has an item
\* ready
LoopStep(c) ==
    \/ handle_socket_text(c) \/ handle_socket_other(c) \/ handle_socket_end(c)

\* one station's connection, its loop scheduled fairly: a Call that is not
\* answered, one that is, a Ping and the two stream ends.  Nothing in the code
\* bounds the time a socket.send stays pending, so no fairness is put on the
\* completion of a send.
LiveItems == PeerItems \cup {[kind |-> "Ping"]} \cup EndItems

NextLive == NextOver({1}, LiveItems)

SpecLive == Init /\ [][NextLive]_vars /\ WF_vars(LoopStep(1))

\* one station's connection that sends Calls under every name of the lookup
\* table and under names that are not in it: other spellings of a name, a
\* name with a blank, a prefix of a name, the empty name, an action of
\* another OCPP profile
ActionNames ==
    OcppActionEnum \cup
    {"heartbeat", "HEARTBEAT", "authorize", "Heartbeat ", "Boot", "", "Bogus",
     "GetDiagnostics"}
NameItems ==
    {TextItem(CallText(2, "1", <<n, IdTagObject>>)) : n \in ActionNames}
    \cup {[kind |-> "Ping"]} \cup EndItems

NextNames == NextOver({1}, NameItems)

SpecNames == Init /\ [][NextNames]_vars

\* one station's connection that sends BootNotification Calls: with the known
\* serial number (under two message ids, as an object and as an array), with
\* another one, with none, with null, with the known one next to an idTag
\* (which the Authorize variant of OcppPayload takes first), with the known
\* one but without the vendor, with a payload that is no object; and an
\* Authorize Call that carries the payload of the known station
BootNoSerialNull ==
    JObj({<<"chargePointVendor", JStr("X")>>, <<"chargePointModel", JStr("Y")>>,
          <<"chargePointSerialNumber", JNull>>})
BootKnownArray ==
    JArr(<<JNull, JStr("Y"), JStr(KNOWN_SERIAL), JStr("X"), JNull, JNull, JNull, JNull,
           JNull>>)
BootOtherArray ==
    JArr(<<JNull, JStr("Y"), JStr("SN-OTHER"), JStr("X"), JNull, JNull, JNull, JNull,
           JNull>>)
BootKnownWithIdTag ==
    JObj({<<"chargePointVendor", JStr("X")>>, <<"chargePointModel", JStr("Y")>>,
          <<"chargePointSerialNumber", JStr(KNOWN_SERIAL)>>, <<"idTag", JStr("TAG")>>})
BootKnownNoVendor ==
    JObj({<<"chargePointModel", JStr("Y")>>,
          <<"chargePointSerialNumber", JStr(KNOWN_SERIAL)>>})
BootTexts ==
    {CallText(2, "1", <<"BootNotification", b>>) :
        b \in {BootKnownObject, BootOtherObject, BootObject, BootNoSerialNull,
               BootKnownArray, BootOtherArray, BootKnownWithIdTag, BootKnownNoVendor,
               JNull}}
    \cup {CallText(2, "2", <<"BootNotification", BootKnownObject>>),
          CallText(2, "1", <<"Authorize", BootKnownObject>>)}
BootItems == {TextItem(t) : t \in BootTexts} \cup {[kind |-> "Ping"]} \cup EndItems

NextBoot == NextOver({1}, BootItems)

SpecBoot == Init /\ [][NextBoot]_vars

\* one station's connection that sends Calls under each of the 16 actions
\* with the request of an Authorize and the request of a DataTransfer as
\* payload, Calls under the five answering actions with the request of a
\* BootNotification, and a StopTransaction and a Heartbeat with their own;
\* the reason of the StopTransaction is written as the one-key object that
\* serde takes for a unit variant
StopArray ==
    JArr(<<JNull, JNum(10), JStr("2024-01-01T00:00:00Z"), JNum(1),
           JObj({<<"Local", JNull>>}), JNull>>)
ActionTexts ==
    {CallText(2, "1", <<a, b>>) : a \in OcppActionEnum, b \in {IdTagObject, VendorArray}}
    \cup {CallText(2, "1", <<a, BootKnownObject>>) :
             a \in {"Authorize", "BootNotification", "DataTransfer", "Heartbeat",
                    "StopTransaction"}}
    \cup {CallText(2, "1", <<"StopTransaction", StopArray>>),
          CallText(2, "1", <<"Heartbeat", EmptyObject>>)}
ActionItems == {TextItem(t) : t \in ActionTexts} \cup {[kind |-> "Ping"]} \cup EndItems

NextActions == NextOver({1}, ActionItems)

SpecActions == Init /\ [][NextActions]_vars

(***************************************************************************)
(* Vocabulary of the claims: the three frame kinds as the wire format      *)
(* defines them, [2, id, action, payload], [3, id, payload] and            *)
(* [4, id, errorCode, errorDescription, errorDetails].                     *)
(***************************************************************************)
WireCall(text) ==
    /\ IsArr(text) /\ Len(text.a) = 4
    /\ text.a[1] = JNum(2) /\ IsStr(text.a[2]) /\ IsStr(text.a[3])

WireCallResult(text) ==
    /\ IsArr(text) /\ Len(text.a) = 3
    /\ text.a[1] = JNum(3) /\ IsStr(text.a[2])

WireCallError(text) ==
    /\ IsArr(text) /\ Len(text.a) = 5
    /\ text.a[1] = JNum(4) /\ IsStr(text.a[2]) /\ IsStr(text.a[3]) /\ IsStr(text.a[4])

WireFrame(text) == WireCall(text) \/ WireCallResult(text) \/ WireCallError(text)

\* A reply read leniently: positional, or an object with the named fields, so
\* that a claim about whether a reply is sent does not turn on its encoding.
NamedCallResult(text) ==
    /\ IsObj(text)
    /\ HasKey(text, "MessageTypeId") /\ Get(text, "MessageTypeId") = JNum(3)
    /\ HasKey(text, "MessageId") /\ IsStr(Get(text, "MessageId"))
    /\ HasKey(text, "Payload")

NamedCallError(text) ==
    /\ IsObj(text)
    /\ HasKey(text, "MessageTypeId") /\ Get(text, "MessageTypeId") = JNum(4)
    /\ HasKey(text, "MessageId") /\ IsStr(Get(text, "MessageId"))
    /\ HasKey(text, "ErrorCode") /\ IsStr(Get(text, "ErrorCode"))

IsCallResultFor(text, id) ==
    \/ WireCallResult(text) /\ text.a[2] = JStr(id)
    \/ NamedCallResult(text) /\ Get(text, "MessageId") = JStr(id)

IsCallErrorFor(text, id) ==
    \/ WireCallError(text) /\ text.a[2] = JStr(id)
    \/ NamedCallError(text) /\ Get(text, "MessageId") = JStr(id)

ResultPayload(text) == IF IsArr(text) THEN text.a[3] ELSE Get(text, "Payload")
ErrorCodeOf(text) == IF IsArr(text) THEN text.a[3] ELSE Get(text, "ErrorCode")

\* the request struct of a whitelisted action
RequestOf(action) ==
    OcppPayload[CHOOSE i \in 1..Len(OcppPayload) :
                   OcppPayload[i].variant = action /\ OcppPayload[i].kind = "Request"].fields

\* the loop of connection c has taken a text frame, and its handling is over
\* without a transport failure: the loop is back at socket.next()
HandledText(c) == last[c].item.kind = "Text" /\ AtNext(c)
LastText(c) == last[c].item.text
LastId(c) == LastText(c).a[2].s
LastAction(c) == LastText(c).a[3].s
LastPayload(c) == LastText(c).a[4]

HandledCall(c) == HandledText(c) /\ WireCall(LastText(c))

(***************************************************************************)
(* C1.  A well-formed Heartbeat Call [2, id, "Heartbeat", {}] is answered  *)
(* with exactly one CallResult that carries the same message id and a      *)
(* payload holding the server time, before the next frame is taken.        *)
(***************************************************************************)
C1_HeartbeatAnswered ==
    \A c \in Conns :
        (HandledCall(c) /\ LastAction(c) = "Heartbeat" /\ LastPayload(c) = EmptyObject)
        => /\ Len(last[c].sent) = 1
           /\ IsCallResultFor(last[c].sent[1], LastId(c))
           /\ \E t \in 0..MaxClock :
                 ResultPayload(last[c].sent[1]) = HeartbeatResponseBody(t)

(***************************************************************************)
(* C2.  A Call whose action is not one of the 16 Core actions is answered  *)
(* with a CallError carrying its message id and error code                 *)
(* "NotImplemented", and the session stays open.                           *)
(***************************************************************************)
C2_UnknownActionAnswered ==
    \A c \in Conns :
        (last[c].item.kind = "Text" /\ WireCall(LastText(c))
           /\ LastAction(c) \notin OcppActionEnum)
        => /\ status[c] = "open"
           /\ Len(last[c].sent) = 1
           /\ IsCallErrorFor(last[c].sent[1], LastId(c))
           /\ ErrorCodeOf(last[c].sent[1]) = JStr("NotImplemented")

(***************************************************************************)
(* C3.  A Call with a Core action and a payload that is a valid request of *)
(* that action is answered with exactly one reply frame, a CallResult or a *)
(* CallError, carrying the Call's message id.                              *)
(***************************************************************************)
C3_EveryCallAnswered ==
    \A c \in Conns :
        (HandledCall(c) /\ LastAction(c) \in OcppActionEnum
           /\ Deserializes(RequestOf(LastAction(c)), LastPayload(c)))
        => /\ Len(last[c].sent) = 1
           /\ \/ IsCallResultFor(last[c].sent[1], LastId(c))
              \/ IsCallErrorFor(last[c].sent[1], LastId(c))

(***************************************************************************)
(* C4.  Frame decoding accepts a text only when it is an array starting    *)
(* with 2 and holding 4 elements, with 3 and holding 3, or with 4 and      *)
(* holding 5; every other array is a decode error and is not dispatched.   *)
(***************************************************************************)
C4_DecodeChecksTypeId ==
    \A c \in Conns :
        (last[c].item.kind = "Text" /\ OcppMessageType(LastText(c)).ok)
        => /\ WireFrame(LastText(c))
           /\ OcppMessageType(LastText(c)).variant = "Call" <=> WireCall(LastText(c))
           /\ OcppMessageType(LastText(c)).variant = "CallResult"
                 <=> WireCallResult(LastText(c))

(***************************************************************************)
(* C5.  Every text the server sends is a JSON array in the positional      *)
(* order of its kind, [3, id, payload] or [4, id, code, description,       *)
(* details], and never a frame of another shape.                           *)
(***************************************************************************)
C5_RepliesArePositional ==
    \A c \in Conns : \A i \in 1..Len(outbox[c]) :
        WireCallResult(outbox[c][i].text) \/ WireCallError(outbox[c][i].text)

(***************************************************************************)
(* C6.  Round trip: every reply text the server emits is accepted by the   *)
(* server's own frame decoder and decodes to a frame of the same kind,     *)
(* with the same message id and payload.                                   *)
(***************************************************************************)
C6_RepliesDecode ==
    \A c \in Conns : \A i \in 1..Len(outbox[c]) :
        LET text == outbox[c][i].text
            m == OcppMessageType(text)
        IN  /\ m.ok
            /\ m.variant \in {"CallResult", "CallError"}
            /\ m.variant = "CallResult"
                  => /\ IsCallResultFor(text, m.message_id)
                     /\ m.payload = ResultPayload(text)
            /\ m.variant = "CallError" => IsCallErrorFor(text, m.message_id)

(***************************************************************************)
(* C7.  A well-formed BootNotification Call (vendor and model present, any *)
(* serial number or none) is answered with one CallResult carrying the     *)
(* Call's message id, a status Accepted or Rejected and an interval.       *)
(***************************************************************************)
C7_BootAlwaysAnswered ==
    \A c \in Conns :
        (HandledCall(c) /\ LastAction(c) = "BootNotification"
           /\ Deserializes(BootNotificationRequest, LastPayload(c)))
        => /\ Len(last[c].sent) = 1
           /\ IsCallResultFor(last[c].sent[1], LastId(c))
           /\ LET body == ResultPayload(last[c].sent[1]) IN
              /\ IsObj(body)
              /\ HasKey(body, "status")
              /\ Get(body, "status") \in {JStr("Accepted"), JStr("Rejected")}
              /\ HasKey(body, "interval")

(***************************************************************************)
(* C8.  The payload of a Call is interpreted according to the Call's       *)
(* action: a payload that is a valid request of action A is taken as an A  *)
(* request, never as the request or response of another action.            *)
(***************************************************************************)
C8_PayloadKeyedByAction ==
    \A c \in Conns :
        (HandledCall(c) /\ LastAction(c) \in OcppActionEnum
           /\ Deserializes(RequestOf(LastAction(c)), LastPayload(c)))
        => IsRequestOf(from_value(LastPayload(c)), LastAction(c))

(***************************************************************************)
(* C9.  An inbound CallResult or CallError never makes the server send a   *)
(* frame, whatever its message id and payload.                             *)
(***************************************************************************)
C9_RepliesAreNotAnswered ==
    \A c \in Conns :
        (HandledText(c) /\ (WireCallResult(LastText(c)) \/ WireCallError(LastText(c))))
        => /\ last[c].sent = <<>>
           /\ \A i \in 1..Len(outbox[c]) : outbox[c][i].cause # nproc[c]

(***************************************************************************)
(* C10.  A Call with a Core action whose payload fails validation (it      *)
(* parses as no payload, or is no valid request of the named action) is    *)
(* answered with exactly one CallError carrying the Call's message id,     *)
(* and the socket stays open.                                              *)
(***************************************************************************)
C10_InvalidPayloadAnswered ==
    \A c \in Conns :
        (last[c].item.kind = "Text" /\ WireCall(LastText(c))
           /\ LastAction(c) \in OcppActionEnum
           /\ \/ ~from_value(LastPayload(c)).ok
              \/ ~Deserializes(RequestOf(LastAction(c)), LastPayload(c)))
        => /\ status[c] = "open"
           /\ Len(last[c].sent) = 1
           /\ IsCallErrorFor(last[c].sent[1], LastId(c))

\* the message id a reply text carries, positional or named
ReplyId(text) == IF IsArr(text) THEN text.a[2] ELSE Get(text, "MessageId")

(***************************************************************************)
(* C11.  Over any sequence of inbound frames on one session the server     *)
(* sends at most one reply per message id, also when the station sends two *)
(* Calls that carry the same message id.                                   *)
(***************************************************************************)
C11_OneReplyPerMessageId ==
    \A c \in Conns : \A i, j \in 1..Len(outbox[c]) :
        i # j => ReplyId(outbox[c][i].text) # ReplyId(outbox[c][j].text)

RepliesOf(sent, n) == [i \in 1..Len(sent) |-> [text |-> sent[i], cause |-> n]]

(***************************************************************************)
(* C12.  Within one session the inbound frames are processed strictly in   *)
(* arrival order and one at a time: the loop takes the oldest waiting      *)
(* frame, and only when no send of an earlier frame is awaited; a reply    *)
(* leaves in a step of its own, before the next frame is taken, and is the *)
(* reply awaited for the frame taken last, so replies leave the socket in  *)
(* the arrival order of the Calls they answer.                             *)
(***************************************************************************)
C12_ArrivalOrder ==
    [][\A c \in Conns :
          /\ nproc'[c] # nproc[c]
                => /\ inbox[c] # <<>> /\ pending[c] = <<>>
                   /\ nproc'[c] = nproc[c] + 1
                   /\ last'[c].item = Head(inbox[c])
                   /\ inbox'[c] = Tail(inbox[c])
                   /\ outbox'[c] = outbox[c]
          /\ outbox'[c] # outbox[c]
                => /\ pending[c] # <<>> /\ pending'[c] = <<>>
                   /\ outbox'[c] = outbox[c] \o RepliesOf(pending[c], nproc[c])
          /\ nproc'[c] = nproc[c]
                => \/ inbox'[c] = inbox[c]
                   \/ \E item \in Items : inbox'[c] = Append(inbox[c], item)]_vars

\* two Calls with distinct ids were taken in turn, and their replies were sent
\* in that order
C12_Witness ==
    \E c \in Conns :
        /\ nproc[c] = 2 /\ Len(outbox[c]) = 2
        /\ outbox[c][1].cause = 1 /\ outbox[c][2].cause = 2
        /\ ReplyId(outbox[c][1].text) = JStr("1")
        /\ ReplyId(outbox[c][2].text) = JStr("2")

\* the kind of a reply text, positional or named, and what a handling sent as
\* <<kind, message id>> pairs
ReplyKind(text) == IF IsArr(text) THEN text.a[1] ELSE Get(text, "MessageTypeId")
Outcome(sent) == [i \in 1..Len(sent) |-> <<ReplyKind(sent[i]), ReplyId(sent[i])>>]

(***************************************************************************)
(* C13.  The outcome of a Heartbeat Call does not depend on the history of *)
(* the session: two sessions that have just handled the same Heartbeat     *)
(* Call, whatever each received before it, sent replies of the same kind   *)
(* and message id for it.                                                  *)
(***************************************************************************)
C13_HeartbeatIgnoresHistory ==
    \A c, d \in Conns :
        (/\ HandledCall(c) /\ HandledCall(d)
         /\ LastAction(c) = "Heartbeat"
         /\ LastText(c) = LastText(d))
            => Outcome(last[c].sent) = Outcome(last[d].sent)

\* one session handled the Heartbeat after a BootNotification it was answered
\* for, another handled the same Heartbeat as its first frame
C13_Witness ==
    \E c, d \in Conns :
        /\ HandledCall(c) /\ HandledCall(d)
        /\ LastAction(c) = "Heartbeat" /\ LastText(c) = LastText(d)
        /\ nproc[c] = 2 /\ outbox[c] # <<>>
        /\ nproc[d] = 1

\* what belongs to connection c
Session(c) ==
    <<status[c], station[c], wire[c], inbox[c], nproc[c], last[c], pending[c], outbox[c]>>

(***************************************************************************)
(* C14.  Sessions are isolated.  A step that delivers a frame to a         *)
(* session, lets a session take one or resolves the send of a session      *)
(* leaves every other session as it was, its status, its waiting frames,   *)
(* its awaited send and its sent texts, so no session is ended or held up  *)
(* by another; and what a session hands to the socket for a text frame,    *)
(* and then sends, is what the handler yields for that text alone.         *)
(***************************************************************************)
C14_SessionsIsolated ==
    [][/\ \A c, d \in Conns :
             (c # d /\ Session(c)' # Session(c)) => Session(d)' = Session(d)
       /\ \A c \in Conns :
             /\ (nproc'[c] # nproc[c] /\ Head(inbox[c]).kind = "Text")
                   => /\ status'[c] = "open"
                      /\ pending'[c] = handle_ocpp_messages(Head(inbox[c]).text, now)
             /\ outbox'[c] # outbox[c]
                   => /\ last'[c].sent = pending[c]
                      /\ outbox'[c] = outbox[c] \o RepliesOf(pending[c], nproc[c])]_vars

\* one session handled two frames and died on the second, the other is open,
\* has been answered and has a frame waiting
C14_Witness ==
    \E c, d \in Conns :
        /\ c # d
        /\ nproc[c] = 2 /\ status[c] = "panicked"
        /\ status[d] = "open" /\ HandledText(d) /\ last[d].sent # <<>>
        /\ inbox[d] # <<>>

(***************************************************************************)
(* C15.  At every moment there is at most one live session per station     *)
(* identifier: two sessions that are both open were upgraded on different  *)
(* station identifiers.                                                    *)
(***************************************************************************)
C15_OneSessionPerStation ==
    \A c, d \in Conns :
        (c # d /\ status[c] = "open" /\ status[d] = "open")
            => station[c] # station[d]

Over(c) == status[c] \in {"ended", "panicked"}

(***************************************************************************)
(* C16.  A transport error ends that session only.  A step that takes an   *)
(* error of the inbound stream ends the session; a session inside a send   *)
(* takes no frame, and its send either completes, and the reply is out, or *)
(* fails, and the session is over with the reply dropped; a session that   *)
(* is over takes and sends nothing more; and the step that ends one        *)
(* session leaves the status of every other session as it was.             *)
(***************************************************************************)
C16_TransportErrorEndsSession ==
    [][\A c \in Conns :
          /\ (nproc'[c] # nproc[c] /\ Head(inbox[c]).kind = "Error")
                => status'[c] = "ended" /\ outbox'[c] = outbox[c]
          /\ pending[c] # <<>> => nproc'[c] = nproc[c]
          /\ (pending[c] # <<>> /\ pending'[c] # pending[c])
                => \/ /\ status'[c] = "open"
                      /\ outbox'[c] = outbox[c] \o RepliesOf(pending[c], nproc[c])
                   \/ status'[c] = "panicked" /\ outbox'[c] = outbox[c]
          /\ Over(c)
                => /\ status'[c] = status[c] /\ nproc'[c] = nproc[c]
                   /\ outbox'[c] = outbox[c] /\ pending'[c] = <<>>
          /\ (~Over(c) /\ Over(c)')
                => \A d \in Conns \ {c} : status'[d] = status[d]]_vars

\* one session died of the failed send of its first reply, another was
\* answered and then ended by a stream error
C16_Witness ==
    \E c, d \in Conns :
        /\ status[c] = "panicked" /\ nproc[c] = 1 /\ outbox[c] = <<>>
        /\ status[d] = "ended" /\ last[d].item.kind = "Error" /\ outbox[d] # <<>>

\* item is a text frame that no variant of OcppMessageType takes
Undecodable(item) == item.kind = "Text" /\ ~OcppMessageType(item.text).ok

(***************************************************************************)
(* C17.  A text frame that fails to decode is fatal to that frame only.    *)
(* The step that takes it leaves the session open, hands nothing to the    *)
(* socket and leaves the frames waiting behind it in place; and the text   *)
(* frame taken right after it is handled as the handler handles that text  *)
(* alone.                                                                  *)
(***************************************************************************)
C17_DecodeFailureSkipsFrame ==
    [][\A c \in Conns :
          /\ (nproc'[c] # nproc[c] /\ Undecodable(Head(inbox[c])))
                => /\ status'[c] = "open" /\ wire'[c] = wire[c]
                   /\ outbox'[c] = outbox[c] /\ pending'[c] = <<>>
                   /\ inbox'[c] = Tail(inbox[c])
          /\ (nproc'[c] # nproc[c] /\ Undecodable(last[c].item)
                 /\ Head(inbox[c]).kind = "Text")
                => /\ status'[c] = "open"
                   /\ pending'[c] = handle_ocpp_messages(Head(inbox[c]).text, now)]_vars

\* a text that does not decode was taken and nothing was sent; the session is
\* open and a Call that the handler answers is next
C17_Witness ==
    \E c \in Conns :
        /\ HandledText(c) /\ Undecodable(last[c].item) /\ outbox[c] = <<>>
        /\ inbox[c] # <<>> /\ Head(inbox[c]).kind = "Text"
        /\ handle_ocpp_messages(Head(inbox[c]).text, now) # <<>>

(***************************************************************************)
(* C18.  When the socket is closed, that is once the inbound stream has    *)
(* ended or yielded an error, the loop of the session eventually           *)
(* terminates; and a terminated session takes no further frame and sends   *)
(* no further frame.                                                       *)
(***************************************************************************)
C18_LoopTerminatesOnClose ==
    /\ \A c \in Conns : (wire[c] = "done") ~> Over(c)
    /\ [][\A c \in Conns :
             Over(c) => /\ Over(c)' /\ nproc'[c] = nproc[c]
                        /\ inbox'[c] = inbox[c] /\ outbox'[c] = outbox[c]]_vars

\* the 16 action names of the Core profile
CoreActionNames ==
    {"Authorize", "BootNotification", "ChangeAvailability", "ChangeConfiguration",
     "ClearCache", "DataTransfer", "GetConfiguration", "Heartbeat", "MeterValues",
     "RemoteStartTransaction", "RemoteStopTransaction", "Reset",
     "StatusNotification", "StartTransaction", "StopTransaction", "UnlockConnector"}

(***************************************************************************)
(* C19.  Action lookup is an exact, case-sensitive match against the 16    *)
(* Core action names: for every Call handled, the lookup succeeded exactly *)
(* if the action string of the frame is one of the 16 names, and then with *)
(* the action of that name.                                                *)
(***************************************************************************)
C19_ExactActionLookup ==
    \A c \in Conns :
        HandledCall(c)
            => /\ Len(last[c].steps) >= 2
               /\ last[c].steps[2].step = "lookup"
               /\ last[c].steps[2].ok <=> LastAction(c) \in CoreActionNames
               /\ last[c].steps[2].ok => last[c].steps[2].value = LastAction(c)

\* a Call named "heartbeat" was handled, and its lookup failed
C19_Witness ==
    \E c \in Conns :
        /\ HandledCall(c) /\ LastAction(c) = "heartbeat"
        /\ ~last[c].steps[2].ok

\* the steps of the handling of the text frame taken last by connection c, and
\* the positions at which the payload was parsed
Steps(c) == last[c].steps
PayloadSteps(c) == {i \in 1..Len(Steps(c)) : Steps(c)[i].step = "payload"}

(***************************************************************************)
(* C20.  For every inbound text frame the decoding of the frame shape      *)
(* comes before any interpretation of the payload: the handling starts     *)
(* with the decoding; the payload is parsed only after every earlier step  *)
(* succeeded, and for a Call only after the lookup of its action; a frame  *)
(* that fails to decode, or a Call whose action is unknown, never has its  *)
(* payload parsed.                                                         *)
(***************************************************************************)
C20_DecodeBeforePayload ==
    \A c \in Conns :
        last[c].item.kind = "Text"
            => /\ Len(Steps(c)) >= 1 /\ Steps(c)[1].step = "decode"
               /\ \A i \in PayloadSteps(c) :
                     /\ \A j \in 1..(i - 1) : Steps(c)[j].ok
                     /\ Steps(c)[1].value = "Call"
                           => \E j \in 2..(i - 1) : Steps(c)[j].step = "lookup"
               /\ ~Steps(c)[1].ok => Len(Steps(c)) = 1
               /\ (WireCall(LastText(c)) /\ LastAction(c) \notin CoreActionNames)
                     => PayloadSteps(c) = {}

\* a Call with a known action and a payload that is no request at all was
\* handled: decoding, lookup and the parse of the payload, in this order
C20_Witness ==
    \E c \in Conns :
        /\ HandledCall(c) /\ LastAction(c) = "Heartbeat" /\ LastPayload(c) = JNull
        /\ PayloadSteps(c) = {3}
        /\ ~Steps(c)[3].ok

\* the serial number a payload carries as a BootNotification request: the
\* value of chargePointSerialNumber of an object, the third element of an
\* array
SerialOf(payload) ==
    IF IsObj(payload)
    THEN IF HasKey(payload, "chargePointSerialNumber")
         THEN Get(payload, "chargePointSerialNumber") ELSE JNull
    ELSE payload.a[3]

\* the payload parses as a BootNotification request that carries the serial
\* number the server knows
KnownBoot(payload) ==
    /\ from_value(payload).ok
    /\ from_value(payload).variant = "BootNotification"
    /\ from_value(payload).kind = "Request"
    /\ SerialOf(payload) = JStr("NKYK430037668")

\* the texts sent while the item taken last by connection c was handled
SentForLast(c) ==
    SelectSeq(outbox[c], LAMBDA r : r.cause = nproc[c])

\* text is the CallResult that accepts the BootNotification taken last by c
BootAccepted(c, text) ==
    /\ IsCallResultFor(text, LastId(c))
    /\ Get(ResultPayload(text), "status") = JStr("Accepted")
    /\ Get(ResultPayload(text), "interval") = JNum(300)

\* nothing was sent, and nothing is being sent, for the item taken last by c
NothingForLast(c) == SentForLast(c) = <<>> /\ pending[c] = <<>>

(***************************************************************************)
(* C21.  A BootNotification Call is answered if and only if its payload    *)
(* parses as a BootNotification request whose chargePointSerialNumber is   *)
(* "NKYK430037668".  The reply is then one CallResult with the message id  *)
(* of the Call, status Accepted and interval 300: it is out, or its send   *)
(* is awaited, or its send failed, which ended the session.  In every      *)
(* other case nothing is sent and the session stays open.                  *)
(***************************************************************************)
C21_BootAnsweredForKnownSerial ==
    \A c \in Conns :
        (/\ last[c].item.kind = "Text" /\ WireCall(LastText(c))
         /\ LastAction(c) = "BootNotification")
            => IF KnownBoot(LastPayload(c))
               THEN \/ /\ status[c] = "open" /\ pending[c] = <<>>
                       /\ Len(SentForLast(c)) = 1
                       /\ BootAccepted(c, SentForLast(c)[1].text)
                    \/ /\ status[c] = "open" /\ SentForLast(c) = <<>>
                       /\ Len(pending[c]) = 1
                       /\ BootAccepted(c, pending[c][1])
                    \/ status[c] = "panicked" /\ NothingForLast(c)
               ELSE status[c] = "open" /\ NothingForLast(c)

\* the known station was answered under message id 2, as the second frame of
\* a session whose first frame was not answered
C21_Witness ==
    \E c \in Conns :
        /\ HandledCall(c) /\ LastAction(c) = "BootNotification"
        /\ KnownBoot(LastPayload(c)) /\ LastId(c) = "2"
        /\ nproc[c] = 2 /\ Len(outbox[c]) = 1 /\ outbox[c][1].cause = 2

\* the actions whose arm of handle_ocpp_call can send, and the other eleven
AnsweringActions ==
    {"Authorize", "BootNotification", "DataTransfer", "Heartbeat", "StopTransaction"}
SilentActions ==
    {"ChangeAvailability", "ChangeConfiguration", "ClearCache", "GetConfiguration",
     "MeterValues", "RemoteStartTransaction", "RemoteStopTransaction", "Reset",
     "StatusNotification", "StartTransaction", "UnlockConnector"}

\* the payload was parsed as the request of the action
ParsedAsRequestOf(payload, action) ==
    /\ from_value(payload).ok
    /\ from_value(payload).variant = action
    /\ from_value(payload).kind = "Request"

(***************************************************************************)
(* C22.  Only a Call with action Authorize, BootNotification,              *)
(* DataTransfer, Heartbeat or StopTransaction can produce an outbound      *)
(* frame: a Call with one of the other eleven whitelisted actions sends    *)
(* nothing, whatever its payload, and a Call with one of the five sends    *)
(* nothing when its payload was not parsed as the request of that action.  *)
(* Sending nothing is: no text is out and no send is awaited.              *)
(***************************************************************************)
C22_OnlyFiveActionsAnswer ==
    \A c \in Conns :
        (last[c].item.kind = "Text" /\ WireCall(LastText(c)))
            => /\ LastAction(c) \in SilentActions => NothingForLast(c)
               /\ LastAction(c) \notin AnsweringActions => NothingForLast(c)
               /\ (/\ LastAction(c) \in AnsweringActions
                   /\ ~ParsedAsRequestOf(LastPayload(c), LastAction(c)))
                     => NothingForLast(c)

\* a StartTransaction Call carrying the request of an Authorize was taken and
\* nothing was sent for it, on a session whose first Call had been answered
C22_Witness ==
    \E c \in Conns :
        /\ HandledCall(c) /\ LastAction(c) = "StartTransaction"
        /\ LastPayload(c) = IdTagObject
        /\ nproc[c] = 2 /\ SentForLast(c) = <<>>
        /\ Len(outbox[c]) = 1 /\ outbox[c][1].cause = 1

(***************************************************************************)
(* C23.  The server never originates a frame.  A send is started only in a *)
(* step that takes a text frame from the stream, for one text that carries *)
(* the message id of the frame taken; the texts sent by a session change   *)
(* only when that send completes, by that one text, while the text frame   *)
(* is the frame taken last; a step that takes a binary, ping, pong or      *)
(* close frame, or that takes nothing, starts no send.                     *)
(***************************************************************************)
C23_NoFrameOfItsOwn ==
    [][\A c \in Conns :
          /\ pending'[c] \notin {pending[c], <<>>}
                => /\ inbox[c] # <<>> /\ Head(inbox[c]).kind = "Text"
                   /\ pending[c] = <<>>
                   /\ nproc'[c] = nproc[c] + 1
                   /\ Len(pending'[c]) = 1
                   /\ IsArr(Head(inbox[c]).text) /\ Len(Head(inbox[c]).text.a) >= 2
                   /\ ReplyId(pending'[c][1]) = Head(inbox[c]).text.a[2]
          /\ outbox'[c] # outbox[c]
                => /\ last[c].item.kind = "Text" /\ nproc'[c] = nproc[c]
                   /\ Len(pending[c]) = 1
                   /\ outbox'[c] = Append(outbox[c],
                                          [text |-> pending[c][1], cause |-> nproc[c]])
                   /\ ReplyId(pending[c][1]) = LastText(c).a[2]]_vars

\* a CallError was taken as the second item of a session and sent back under
\* its message id; the first item of the session caused no text
C23_Witness ==
    \E c \in Conns :
        /\ HandledText(c) /\ WireCallError(LastText(c))
        /\ nproc[c] = 2 /\ Len(outbox[c]) = 1 /\ outbox[c][1].cause = 2
        /\ ReplyId(outbox[c][1].text) = LastText(c).a[2]

====
